---------------------------- MODULE Spec2Model ----------------------------
(***************************************************************************)
(* A model of the LS-8 emulator of src/ls8/cpu.py: the CPU object (ram,    *)
(* reg, pc, fl), the program loader load(), the fetch-decode-execute loop  *)
(* run() and the sixteen instruction handlers.  Python's list indexing     *)
(* (negative indices wrap once, anything else raises IndexError), its      *)
(* unbounded integers and its uncaught-exception exit (status 1, traceback *)
(* on standard error) are modelled as the interpreter performs them.       *)
(***************************************************************************)
EXTENDS Integers, Sequences, FiniteSets, TLC

(***************************************************************************)
(* Instruction definitions (cpu.py lines 5-24).                            *)
(***************************************************************************)
HLT == 1
LDI == 130
PRN == 71
MUL == 162
ADD == 160
ADDI == 165
SUB == 161
PUSH == 69
POP == 70
CALL == 80
RET == 17
ST == 132
CMP == 167
JMP == 84
JEQ == 85
JNE == 86

SP == 7

RamSize == 256
NumRegs == 8

(***************************************************************************)
(* Bounds of the model.  MaxCycles caps the number of run-loop iterations  *)
(* explored for one program (a program may loop forever).                  *)
(***************************************************************************)
MaxCycles == 10

(***************************************************************************)
(* Python primitives.                                                      *)
(***************************************************************************)
\* x >> n on Python integers (arithmetic shift: floor division by 2^n).
Shr(x, n) == x \div (2 ^ n)

\* (x >> n) & 1
BitOf(x, n) == Shr(x, n) % 2

\* lst[i] on a list of length n is defined for -n <= i < n ...
IndexOK(i, n) == (i >= -n) /\ (i < n)

\* ... and a negative index counts from the end.
Pos(i, n) == IF i < 0 THEN i + n ELSE i

\* The exceptions and exits a call can end in; "none" is a normal return.
Raise(c, e) == [c EXCEPT !.exc = e]

\* print(msg) followed by sys.exit(code).
PrintExit(c, msg, arg, code) ==
    [c EXCEPT !.diag = [msg |-> msg, arg |-> arg],
              !.exc = "SystemExit", !.exitcode = code]

NoDiag == [msg |-> "", arg |-> <<>>]

(***************************************************************************)
(* CPU.__init__: the object after construction.  A CPU value is a record;  *)
(* out is what print() has written for PRN, diag the diagnostic printed    *)
(* before a sys.exit, exc the way the current call ended.                  *)
(***************************************************************************)
NewCPU ==
    [ram |-> [a \in 0..(RamSize - 1) |-> 0],
     reg |-> [r \in 0..(NumRegs - 1) |-> IF r = SP THEN 244 ELSE 0],
     pc |-> 0,
     fl |-> 0,
     out |-> <<>>,
     diag |-> NoDiag,
     exc |-> "none",
     exitcode |-> -1]

(***************************************************************************)
(* ram_read / ram_write: self.ram[address], guarded by RamOK where the     *)
(* caller must raise IndexError.                                           *)
(***************************************************************************)
RamOK(address) == IndexOK(address, RamSize)

RegOK(reg_num) == IndexOK(reg_num, NumRegs)

ram_read(c, address) == c.ram[Pos(address, RamSize)]

ram_write(c, value, address) ==
    IF RamOK(address)
    THEN [c EXCEPT !.ram[Pos(address, RamSize)] = value]
    ELSE Raise(c, "IndexError")

reg_read(c, reg_num) == c.reg[Pos(reg_num, NumRegs)]

reg_write(c, reg_num, value) ==
    IF RegOK(reg_num)
    THEN [c EXCEPT !.reg[Pos(reg_num, NumRegs)] = value]
    ELSE Raise(c, "IndexError")

(***************************************************************************)
(* The instruction handlers.  Each takes the CPU and the two operand bytes *)
(* and returns the CPU after the call; exc # "none" means the call raised  *)
(* at that point, with the effects made before it kept.                    *)
(***************************************************************************)
\* handle_ldi refusing to load the stack pointer.
handle_ldi_keeps_sp(c, reg_num, immediate) ==
    IF reg_num = SP THEN c ELSE reg_write(c, reg_num, immediate)

handle_ldi(c, reg_num, immediate) == reg_write(c, reg_num, immediate)

handle_prn(c, reg_num, operand_b) ==
    IF RegOK(reg_num)
    THEN [c EXCEPT !.out = Append(@, reg_read(c, reg_num))]
    ELSE Raise(c, "IndexError")

\* handle_hlt exiting with status 1.
handle_hlt_status1(c, operand_a, operand_b) ==
    [c EXCEPT !.exc = "SystemExit", !.exitcode = 1]

handle_hlt(c, operand_a, operand_b) ==
    [c EXCEPT !.exc = "SystemExit", !.exitcode = 0]

handle_push(c, reg_num, operand_b) ==
    LET c1 == [c EXCEPT !.reg[SP] = @ - 1]
    IN  IF ~RegOK(reg_num) THEN Raise(c1, "IndexError")
        ELSE ram_write(c1, reg_read(c1, reg_num), c1.reg[SP])

\* handle_pop without the increment of SP.
handle_pop_no_inc(c, reg_num, operand_b) ==
    LET top_of_stack_addr == c.reg[SP]
    IN  IF ~RamOK(top_of_stack_addr) THEN Raise(c, "IndexError")
        ELSE reg_write(c, reg_num, ram_read(c, top_of_stack_addr))

handle_pop(c, reg_num, operand_b) ==
    LET top_of_stack_addr == c.reg[SP]
    IN  IF ~RamOK(top_of_stack_addr) THEN Raise(c, "IndexError")
        ELSE LET c1 == reg_write(c, reg_num, ram_read(c, top_of_stack_addr))
             IN  IF c1.exc # "none" THEN c1
                 ELSE [c1 EXCEPT !.reg[SP] = @ + 1]

\* handle_call pushing the address of its own operand byte (PC + 1).
handle_call_ret_off(c, subroutine, operand_b) ==
    LET ret_addr == c.pc + 1
        c1 == [c EXCEPT !.reg[SP] = @ - 1]
        c2 == ram_write(c1, ret_addr, c1.reg[SP])
    IN  IF c2.exc # "none" THEN c2
        ELSE IF ~RegOK(subroutine) THEN Raise(c2, "IndexError")
        ELSE [c2 EXCEPT !.pc = reg_read(c2, subroutine)]

handle_call(c, subroutine, operand_b) ==
    LET ret_addr == c.pc + 2
        c1 == [c EXCEPT !.reg[SP] = @ - 1]
        c2 == ram_write(c1, ret_addr, c1.reg[SP])
    IN  IF c2.exc # "none" THEN c2
        ELSE IF ~RegOK(subroutine) THEN Raise(c2, "IndexError")
        ELSE [c2 EXCEPT !.pc = reg_read(c2, subroutine)]

handle_ret(c, operand_a, operand_b) ==
    IF ~RamOK(c.reg[SP]) THEN Raise(c, "IndexError")
    ELSE LET ret_addr == ram_read(c, c.reg[SP])
         IN  [c EXCEPT !.reg[SP] = @ + 1, !.pc = ret_addr]

\* handle_st with the value and the address exchanged.
handle_st_swapped(c, reg_a, reg_b) ==
    IF ~RegOK(reg_b) \/ ~RegOK(reg_a) THEN Raise(c, "IndexError")
    ELSE ram_write(c, reg_read(c, reg_a), reg_read(c, reg_b))

handle_st(c, reg_a, reg_b) ==
    IF ~RegOK(reg_b) \/ ~RegOK(reg_a) THEN Raise(c, "IndexError")
    ELSE ram_write(c, reg_read(c, reg_b), reg_read(c, reg_a))

handle_jmp(c, reg_num, operand_b) ==
    IF ~RegOK(reg_num) THEN Raise(c, "IndexError")
    ELSE [c EXCEPT !.pc = reg_read(c, reg_num)]

handle_jeq(c, reg_num, operand_b) ==
    IF c.fl % 2 = 1
    THEN handle_jmp(c, reg_num, operand_b)
    ELSE [c EXCEPT !.pc = @ + 2]

\* handle_jne testing the greater-than bit instead of the equal bit.
handle_jne_wrong_bit(c, reg_num, operand_b) ==
    IF BitOf(c.fl, 1) = 0
    THEN handle_jmp(c, reg_num, operand_b)
    ELSE [c EXCEPT !.pc = @ + 2]

handle_jne(c, reg_num, operand_b) ==
    IF c.fl % 2 = 0
    THEN handle_jmp(c, reg_num, operand_b)
    ELSE [c EXCEPT !.pc = @ + 2]

\* handle_add that also records a zero result in FL.
handle_add_sets_fl(c, reg_a, reg_b) ==
    IF ~RegOK(reg_a) \/ ~RegOK(reg_b) THEN Raise(c, "IndexError")
    ELSE LET sum == reg_read(c, reg_a) + reg_read(c, reg_b)
         IN  [reg_write(c, reg_a, sum) EXCEPT !.fl = IF sum = 0 THEN 1 ELSE 0]

handle_add(c, reg_a, reg_b) ==
    IF ~RegOK(reg_a) \/ ~RegOK(reg_b) THEN Raise(c, "IndexError")
    ELSE reg_write(c, reg_a, reg_read(c, reg_a) + reg_read(c, reg_b))

handle_sub(c, reg_a, reg_b) ==
    IF ~RegOK(reg_a) \/ ~RegOK(reg_b) THEN Raise(c, "IndexError")
    ELSE reg_write(c, reg_a, reg_read(c, reg_a) - reg_read(c, reg_b))

\* handle_mul with + for *.
handle_mul_adds(c, reg_a, reg_b) ==
    IF ~RegOK(reg_a) \/ ~RegOK(reg_b) THEN Raise(c, "IndexError")
    ELSE reg_write(c, reg_a, reg_read(c, reg_a) + reg_read(c, reg_b))

handle_mul(c, reg_a, reg_b) ==
    IF ~RegOK(reg_a) \/ ~RegOK(reg_b) THEN Raise(c, "IndexError")
    ELSE reg_write(c, reg_a, reg_read(c, reg_a) * reg_read(c, reg_b))

\* handle_cmp with the less-than and greater-than bits exchanged.
handle_cmp_swapped(c, reg_a, reg_b) ==
    IF ~RegOK(reg_a) \/ ~RegOK(reg_b) THEN Raise(c, "IndexError")
    ELSE LET valueA == reg_read(c, reg_a)
             valueB == reg_read(c, reg_b)
         IN  IF valueA = valueB THEN [c EXCEPT !.fl = 1]
             ELSE IF valueA < valueB THEN [c EXCEPT !.fl = 2]
             ELSE [c EXCEPT !.fl = 4]

handle_cmp(c, reg_a, reg_b) ==
    IF ~RegOK(reg_a) \/ ~RegOK(reg_b) THEN Raise(c, "IndexError")
    ELSE LET valueA == reg_read(c, reg_a)
             valueB == reg_read(c, reg_b)
         IN  IF valueA = valueB THEN [c EXCEPT !.fl = 1]
             ELSE IF valueA < valueB THEN [c EXCEPT !.fl = 4]
             ELSE IF valueA > valueB THEN [c EXCEPT !.fl = 2]
             ELSE Raise(c, "TypeError")

handle_addi(c, reg_num, immediate) ==
    IF ~RegOK(reg_num) THEN Raise(c, "IndexError")
    ELSE reg_write(c, reg_num, reg_read(c, reg_num) + immediate)

(***************************************************************************)
(* The two dispatch tables built by __init__.                              *)
(***************************************************************************)
BranchKeys == {HLT, LDI, PRN, PUSH, POP, CALL, RET, ST, JMP, JEQ, JNE}

AluKeys == {ADD, SUB, MUL, CMP, ADDI}

branchtable(c, ir, operand_a, operand_b) ==
    CASE ir = HLT  -> handle_hlt(c, operand_a, operand_b)
      [] ir = LDI  -> handle_ldi(c, operand_a, operand_b)
      [] ir = PRN  -> handle_prn(c, operand_a, operand_b)
      [] ir = PUSH -> handle_push(c, operand_a, operand_b)
      [] ir = POP  -> handle_pop(c, operand_a, operand_b)
      [] ir = CALL -> handle_call(c, operand_a, operand_b)
      [] ir = RET  -> handle_ret(c, operand_a, operand_b)
      [] ir = ST   -> handle_st(c, operand_a, operand_b)
      [] ir = JMP  -> handle_jmp(c, operand_a, operand_b)
      [] ir = JEQ  -> handle_jeq(c, operand_a, operand_b)
      [] ir = JNE  -> handle_jne(c, operand_a, operand_b)
      [] OTHER     -> Raise(c, "KeyError")

alu_branchtable(c, op, reg_a, reg_b) ==
    CASE op = ADD  -> handle_add(c, reg_a, reg_b)
      [] op = SUB  -> handle_sub(c, reg_a, reg_b)
      [] op = MUL  -> handle_mul(c, reg_a, reg_b)
      [] op = CMP  -> handle_cmp(c, reg_a, reg_b)
      [] op = ADDI -> handle_addi(c, reg_a, reg_b)
      [] OTHER     -> Raise(c, "KeyError")

\* alu(): the table lookup and call, with KeyError turned into a diagnostic
\* and exit status 1.  No handler raises KeyError itself.
alu(c, op, reg_a, reg_b) ==
    LET c1 == alu_branchtable(c, op, reg_a, reg_b)
    IN  IF c1.exc = "KeyError"
        THEN PrintExit(c, "Unsupported ALU operation", <<>>, 1)
        ELSE c1

(***************************************************************************)
(* trace(): the debugging print of the CPU state.  It is called by neither *)
(* load() nor run(); a caller of the class may call it between them.       *)
(***************************************************************************)
HexDigits ==
    <<"0", "1", "2", "3", "4", "5", "6", "7",
      "8", "9", "A", "B", "C", "D", "E", "F">>

\* The upper-case hexadecimal digits of n >= 0.
RECURSIVE HexOf(_)
HexOf(n) ==
    IF n < 16 THEN HexDigits[n + 1]
    ELSE HexOf(n \div 16) \o HexDigits[(n % 16) + 1]

\* "%02X" % n: zero-padded to two characters, the sign counted among them.
Format02X(n) ==
    IF n < 0 THEN "-" \o HexOf(-n)
    ELSE IF n < 16 THEN "0" \o HexOf(n)
    ELSE HexOf(n)

\* The line trace() prints: pc and the three bytes at pc, then the registers.
TraceLine(c) ==
    LET head == "TRACE: " \o Format02X(c.pc) \o " | "
                \o Format02X(ram_read(c, c.pc)) \o " "
                \o Format02X(ram_read(c, c.pc + 1)) \o " "
                \o Format02X(ram_read(c, c.pc + 2)) \o " |"
        RECURSIVE Registers(_)
        Registers(i) ==
            IF i = NumRegs THEN ""
            ELSE " " \o Format02X(c.reg[i]) \o Registers(i + 1)
    IN  head \o Registers(0)

\* The three ram_read calls are evaluated before anything is printed.
trace(c) ==
    IF RamOK(c.pc) /\ RamOK(c.pc + 1) /\ RamOK(c.pc + 2)
    THEN [c EXCEPT !.out = Append(@, TraceLine(c))]
    ELSE Raise(c, "IndexError")

(***************************************************************************)
(* run(): one iteration of the while loop.                                 *)
(***************************************************************************)
\* The three ram_read calls that open the iteration all succeed.
FetchOK(c) == RamOK(c.pc) /\ RamOK(c.pc + 1) /\ RamOK(c.pc + 2)

\* Dispatch testing bit 4 of ir for the ALU.
Dispatch_bit4(c, ir, operand_a, operand_b) ==
    IF BitOf(ir, 4) = 1
    THEN alu(c, ir, operand_a, operand_b)
    ELSE branchtable(c, ir, operand_a, operand_b)

\* The dispatch on bit 5 of ir.
Dispatch(c, ir, operand_a, operand_b) ==
    IF BitOf(ir, 5) = 1
    THEN alu(c, ir, operand_a, operand_b)
    ELSE branchtable(c, ir, operand_a, operand_b)

\* AdvancePC with the test of bit 4 left out.
AdvancePC_always(c, ir) == [c EXCEPT !.pc = @ + (Shr(ir, 6) + 1)]

\* Increment PC if not set in function.
AdvancePC(c, ir) ==
    IF BitOf(ir, 4) = 0
    THEN [c EXCEPT !.pc = @ + (Shr(ir, 6) + 1)]
    ELSE c

Cycle(c) ==
    IF ~FetchOK(c) THEN Raise(c, "IndexError")
    ELSE LET ir == ram_read(c, c.pc)
             operand_a == ram_read(c, c.pc + 1)
             operand_b == ram_read(c, c.pc + 2)
             c1 == Dispatch(c, ir, operand_a, operand_b)
         IN  IF c1.exc # "none" THEN c1 ELSE AdvancePC(c1, ir)

(***************************************************************************)
(* load(): text handling.  A line is a sequence of one-character strings.  *)
(***************************************************************************)
\* The characters str.strip() and str.split() treat as whitespace (those
\* for which str.isspace() holds) among the characters U+0000..U+00FF: the
\* ASCII ones, the separators U+001C..U+001F, NEL (U+0085) and the
\* no-break space (U+00A0).  The whitespace above U+00FF (U+1680,
\* U+2000..U+200A, U+2028, U+2029, U+202F, U+205F, U+3000) cannot be
\* written in a string here, and no file of the model contains it.
VT == ""
FS == ""
GS == ""
RS == ""
US == ""
NEL == ""
NBSP == " "

Whitespace ==
    {" ", "\t", "\n", "\r", "\f", VT, FS, GS, RS, US, NEL, NBSP}

IsSpace(ch) == ch \in Whitespace

\* The leading run of non-space characters of s.
RECURSIVE TakeWord(_)
TakeWord(s) ==
    IF s = <<>> \/ IsSpace(Head(s)) THEN <<>>
    ELSE <<Head(s)>> \o TakeWord(Tail(s))

\* line.strip().split(): the whitespace-separated words of the line.
RECURSIVE Split(_)
Split(s) ==
    IF s = <<>> THEN <<>>
    ELSE IF IsSpace(Head(s)) THEN Split(Tail(s))
    ELSE LET w == TakeWord(s)
         IN  <<w>> \o Split(SubSeq(s, Len(w) + 1, Len(s)))

\* The value of a string of binary digits and single underscores.
RECURSIVE DigitsValue(_, _)
DigitsValue(s, acc) ==
    IF s = <<>> THEN acc
    ELSE IF Head(s) = "_" THEN DigitsValue(Tail(s), acc)
    ELSE DigitsValue(Tail(s), 2 * acc + (IF Head(s) = "1" THEN 1 ELSE 0))

\* Binary digits, with single underscores only between digits.
DigitsOK(s) ==
    /\ Len(s) > 0
    /\ \A i \in 1..Len(s) : s[i] \in {"0", "1", "_"}
    /\ s[1] # "_"
    /\ s[Len(s)] # "_"
    /\ \A i \in 1..(Len(s) - 1) : ~(s[i] = "_" /\ s[i + 1] = "_")

\* int(tok, 2): an optional sign, an optional 0b prefix (which an underscore
\* may follow), then the digits.  ok = FALSE stands for ValueError.
PyIntBase2(tok) ==
    LET signed == Len(tok) > 0 /\ tok[1] \in {"+", "-"}
        body == IF signed THEN Tail(tok) ELSE tok
        prefixed == Len(body) >= 2 /\ body[1] = "0" /\ body[2] \in {"b", "B"}
        rest == IF prefixed THEN SubSeq(body, 3, Len(body)) ELSE body
        digits == IF prefixed /\ Len(rest) > 0 /\ rest[1] = "_"
                  THEN Tail(rest) ELSE rest
        mag == DigitsValue(digits, 0)
    IN  IF DigitsOK(digits)
        THEN [ok |-> TRUE, val |-> IF signed /\ tok[1] = "-" THEN 0 - mag ELSE mag]
        ELSE [ok |-> FALSE, val |-> 0]

\* The body of the for loop with the address advanced on blank lines too.
ReadLine_counts_blank(r, line) ==
    LET temp == Split(line)
        v == PyIntBase2(temp[1])
        c1 == ram_write(r.cpu, v.val, r.address)
    IN  IF Len(temp) = 0 THEN [r EXCEPT !.address = @ + 1]
        ELSE IF temp[1][1] = "#" THEN r
        ELSE IF ~v.ok
        THEN [r EXCEPT !.cpu = PrintExit(r.cpu, "Invalid Instruction: ", temp[1], 1)]
        ELSE IF c1.exc # "none" THEN [r EXCEPT !.cpu = c1]
        ELSE [cpu |-> c1, address |-> r.address + 1]

\* The body of the for loop over the lines of the file: r carries the CPU
\* and the local variable address into the iteration and out of it.
ReadLine(r, line) ==
    LET temp == Split(line)
        v == PyIntBase2(temp[1])
        c1 == ram_write(r.cpu, v.val, r.address)
    IN  IF Len(temp) = 0 THEN r
        ELSE IF temp[1][1] = "#" THEN r
        ELSE IF ~v.ok
        THEN [r EXCEPT !.cpu = PrintExit(r.cpu, "Invalid Instruction: ", temp[1], 1)]
        ELSE IF c1.exc # "none" THEN [r EXCEPT !.cpu = c1]
        ELSE [cpu |-> c1, address |-> r.address + 1]

\* The iterations of the for loop for lines lo..hi, in order, stopping at
\* the first that exits or raises; the range is run as its first half
\* followed by its second half.
RECURSIVE ReadRange(_, _, _, _)
ReadRange(r, lines, lo, hi) ==
    IF r.cpu.exc # "none" \/ lo > hi THEN r
    ELSE IF lo = hi THEN ReadLine(r, lines[lo])
    ELSE LET mid == (lo + hi) \div 2
         IN  ReadRange(ReadRange(r, lines, lo, mid), lines, mid + 1, hi)

\* The for loop over all the lines of the file.
ReadLines(c, lines, address) ==
    ReadRange([cpu |-> c, address |-> address], lines, 1, Len(lines))

\* load() without the test for an empty program.
load_accepts_empty(c, args, f) ==
    IF Len(args) # 2
    THEN PrintExit(c, "usage: cpu.py progname", <<>>, 1)
    ELSE IF ~f.exists
    THEN PrintExit(c, "Couldn't open ", <<args[2]>>, 1)
    ELSE ReadLines(c, f.lines, 0).cpu

\* load(): args is sys.argv, f the file argv[1] names (exists = FALSE when
\* open() raises FileNotFoundError).
load(c, args, f) ==
    IF Len(args) # 2
    THEN PrintExit(c, "usage: cpu.py progname", <<>>, 1)
    ELSE IF ~f.exists
    THEN PrintExit(c, "Couldn't open ", <<args[2]>>, 1)
    ELSE LET r == ReadLines(c, f.lines, 0)
         IN  IF r.cpu.exc # "none" THEN r.cpu
             ELSE IF r.address = 0
             THEN PrintExit(r.cpu, "Provided program was empty.", <<>>, 1)
             ELSE r.cpu

(***************************************************************************)
(* The program files the model is run on.  A program is written as its     *)
(* instruction bytes and turned into the text file the loader reads, one   *)
(* 8-character binary literal per line.                                    *)
(***************************************************************************)
Bin8(b) == [i \in 1..8 |-> IF BitOf(b, 8 - i) = 1 THEN "1" ELSE "0"]

TextOf(bytes) == [i \in 1..Len(bytes) |-> Bin8(bytes[i])]

FileOf(bytes) == [exists |-> TRUE, lines |-> TextOf(bytes)]

Regs == 0..(NumRegs - 1)

Imms == {0, 1, 9, 200, 255}

\* LDI R0,8 / LDI R1,9 / MUL R0,R1 / PRN R0 / HLT
MultProgram == <<LDI, 0, 8, LDI, 1, 9, MUL, 0, 1, PRN, 0, HLT>>

\* LDI r,v / HLT, and LDI after a CMP has set the flags
LdiPrograms ==
    {<<LDI, r, v, HLT>> : r \in Regs, v \in Imms \cup {8, 128, 244}}
    \cup {<<LDI, 1, 5, CMP, 0, 1, LDI, r, v, HLT>> : r \in Regs, v \in {0, 77}}

\* LDI a,x / LDI b,y / op a,b / PRN a / HLT, and arithmetic on the registers
\* as __init__ leaves them
AluPrograms ==
    {<<LDI, ab[1], x, LDI, ab[2], y, op, ab[1], ab[2], PRN, ab[1], HLT>> :
        ab \in {<<0, 1>>, <<1, 0>>, <<2, 2>>, <<7, 3>>, <<4, 7>>},
        x \in Imms, y \in Imms, op \in {ADD, SUB, MUL, CMP}}
    \cup {<<LDI, a, x, ADDI, a, y, PRN, a, HLT>> :
        a \in {0, 7}, x \in Imms, y \in Imms}
    \cup {<<CMP, a, b, HLT>> : a \in Regs, b \in Regs}
    \cup {<<op, a, 7, PRN, a, HLT>> : op \in {ADD, SUB, MUL}, a \in {0, 7}}

\* LDI R0,x / LDI R1,y / CMP R0,R1 / LDI r,17 / jump r / PRN R0 / HLT /
\* 17: PRN R1 / HLT, and the same jumps with FL still 0
JumpPrograms ==
    {<<LDI, 0, x, LDI, 1, y, CMP, 0, 1, LDI, r, 17, j, r, PRN, 0, HLT,
       PRN, 1, HLT>> :
        x \in {0, 1, 255}, y \in {0, 1, 255}, r \in Regs, j \in {JMP, JEQ, JNE}}
    \cup {<<LDI, r, 8, j, r, PRN, 0, HLT, PRN, 1, HLT>> :
        r \in Regs, j \in {JMP, JEQ, JNE}}
    \cup {<<LDI, 0, 5, LDI, 1, y, CMP, 0, 1, LDI, 2, 77, ADD, 2, 0,
            LDI, 3, 20, j, 3, HLT, PRN, 2, HLT>> :
        y \in {4, 5, 6}, j \in {JEQ, JNE}}

\* LDI R7,sp / LDI r,v / PUSH r / POP r2 / HLT, and pops of an empty stack
StackPrograms ==
    {<<LDI, 7, sp, LDI, r, v, PUSH, r, POP, r2, HLT>> :
        sp \in {0, 1, 100, 244, 255}, r \in Regs, r2 \in Regs, v \in {1, 99}}
    \cup {<<LDI, 7, sp, POP, r, POP, r, HLT>> : sp \in {254, 255}, r \in {0, 7}}
    \cup {<<PUSH, r, PUSH, r, POP, 0, HLT>> : r \in Regs}
    \cup {<<LDI, 7, 0, op, 0, HLT>> : op \in {PUSH, POP}}
    \cup {<<LDI, 0, 200, ADD, 0, 0, PUSH, 0, HLT>>}

\* The subroutine bodies placed at address 8, each ending in RET.
Bodies ==
    {<<RET>>,
     <<PUSH, 0, POP, 2, RET>>,
     <<LDI, 2, 77, PUSH, 2, POP, 3, RET>>,
     <<LDI, 2, 243, ST, 2, 3, RET>>,
     <<POP, 2, PUSH, 3, RET>>,
     <<POP, 2, RET>>,
     <<PUSH, 2, RET>>,
     <<LDI, 7, 243, RET>>,
     <<LDI, 4, 14, CALL, 4, RET, PRN, 4, RET>>,
     <<LDI, 2, 100, ST, 2, 3, RET>>}

\* 0: LDI r,8 / 3: CALL r / 5: PRN R0 / 7: HLT / 8: body
CallPrograms ==
    {<<LDI, r, 8, CALL, r, PRN, 0, HLT>> \o body : r \in Regs, body \in Bodies}
    \cup {<<LDI, 7, sp, LDI, 1, 11, CALL, 1, PRN, 0, HLT, RET>> :
            sp \in {0, 1, 2, 255}}
    \cup {<<RET>>, <<LDI, 7, 255, RET>>, <<LDI, 7, 255, ADDI, 7, 1, RET>>}

\* LDI a,addr / LDI b,v / ST a,b / HLT, and stores of a value and to an
\* address that arithmetic has produced
StorePrograms ==
    {<<LDI, a, addr, LDI, b, v, ST, a, b, HLT>> :
        a \in Regs, b \in Regs, addr \in {9, 100, 255}, v \in {1, 77}}
    \cup {<<LDI, 0, 200, ADD, 0, 0, LDI, 1, 100, ST, 1, 0, HLT>>,
          <<LDI, 1, 1, SUB, 0, 1, ST, 0, 1, HLT>>}

\* HLT stored at a chosen address and jumped to; jumps to addresses reached
\* by arithmetic, below 0 and above 255
EdgePrograms ==
    {<<LDI, 0, addr, LDI, 1, HLT, ST, 0, 1, JMP, 0>> :
        addr \in {100, 252, 253, 254, 255}}
    \cup {<<LDI, 1, k, SUB, 0, 1, JMP, 0>> : k \in {1, 2, 3, 255}}
    \cup {<<LDI, 1, 200, SUB, 0, 1, SUB, 0, 1, JMP, 0>>,
          <<LDI, 0, 200, ADD, 0, 0, JMP, 0>>,
          <<LDI, 0, 255, JMP, 0>>,
          <<LDI, 0, 254, JMP, 0>>,
          <<LDI, 0, 0, JMP, 0>>,
          <<LDI, 1, 1, SUB, 0, 1, ST, 0, 1, JMP, 0>>}

\* Bytes with no handler, alone and after an instruction; programs that
\* run off their end; register operands out of range
FaultPrograms ==
    {<<b>> : b \in {0, 2, 16, 32, 163, 255, 224, 128}}
    \cup {<<LDI, 0, 9, b>> : b \in {0, 16, 163, 32}}
    \cup {<<LDI, 0, 9, PRN, 0>>}
    \cup {<<op, 8, 0, HLT>> : op \in {LDI, ST, ADD, SUB, MUL, CMP, ADDI}}
    \cup {<<op, 8, HLT>> : op \in {PRN, PUSH, POP, CALL, JMP, JEQ, JNE}}

\* LDI R1,5 / CMP R0,R1 (less-than) followed by the instructions that must
\* leave the flags alone; the last one calls 16: RET and then jumps on the
\* flags to 17: HLT
FlagPrograms ==
    {<<LDI, 1, 5, CMP, 0, 1>> \o body \o <<HLT>> :
        body \in {<<PRN, 1>>, <<PUSH, 1, POP, 2>>, <<ST, 2, 1>>, <<SUB, 0, 1>>,
                  <<MUL, 1, 1>>, <<ADD, 0, 1>>, <<ADDI, 0, 3>>, <<LDI, 3, 0>>}}
    \cup {<<LDI, 1, 5, CMP, 0, 1, ADDI, 3, 16, CALL, 3, LDI, 3, 17, JNE, 3,
            RET, HLT>>}

\* A program that fills memory: HLT and then the bytes 1..255.
FullProgram == [i \in 1..RamSize |-> IF i = 1 THEN HLT ELSE i - 1]

Programs ==
    {MultProgram} \cup LdiPrograms \cup AluPrograms \cup JumpPrograms
    \cup StackPrograms \cup CallPrograms \cup StorePrograms
    \cup EdgePrograms \cup FaultPrograms \cup FlagPrograms \cup {FullProgram}

\* Files that are not one valid literal per line.
CommentLine == <<"#", " ", "L", "D", "I">>

OtherFiles ==
    {[exists |-> FALSE, lines |-> <<>>],
     [exists |-> TRUE, lines |-> <<>>],
     [exists |-> TRUE, lines |-> <<CommentLine, <<>>, <<" ">>>>],
     [exists |-> TRUE, lines |-> <<CommentLine, Bin8(HLT) \o <<" ">> \o CommentLine>>],
     [exists |-> TRUE, lines |-> <<Bin8(PRN), <<>>, Bin8(0), CommentLine, Bin8(HLT)>>],
     [exists |-> TRUE, lines |-> <<<<"1", "0", "1", "0">>>>],
     [exists |-> TRUE, lines |-> <<Bin8(HLT) \o <<"\f">>>>],
     [exists |-> TRUE, lines |-> <<<<"\f">>, Bin8(PRN), <<VT, NBSP>>, Bin8(0),
                                   <<FS>> \o Bin8(HLT) \o <<NEL>> \o CommentLine>>],
     [exists |-> TRUE, lines |-> <<<<"\f", GS>>, <<RS, US>> \o CommentLine, <<VT>>>>],
     [exists |-> TRUE, lines |-> <<<<"1", US, "0">>, Bin8(HLT)>>],
     [exists |-> TRUE, lines |-> <<Bin8(HLT), <<"2">>>>],
     [exists |-> TRUE, lines |-> <<Bin8(PRN), Bin8(0), Bin8(PRN), Bin8(0),
                                   Bin8(LDI), <<"-", "1">>, <<"1", "0", "1">>,
                                   Bin8(HLT)>>],
     [exists |-> TRUE, lines |-> TextOf(FullProgram) \o <<Bin8(HLT)>>],
     [exists |-> TRUE, lines |-> <<<<"1", "0", "0", "0", "0", "0", "0", "0", "1">>>>]}

Files == {FileOf(p) : p \in Programs} \cup OtherFiles

(***************************************************************************)
(* The state: the command line and the program file (the environment), the *)
(* CPU object's fields, what the process has printed and how it ended, and *)
(* the CPU at the start of each iteration of run() made so far.  caller is *)
(* the code that drives the object: plan holds the points ("constructed",  *)
(* before load(), and "running", between load() and run()) at which it     *)
(* still calls trace(), traced the number of calls it has made.            *)
(***************************************************************************)
VARIABLES argv, file, ram, reg, pc, fl, stdout, diag, status, exitcode,
          traceback, hist, caller

vars == <<argv, file, ram, reg, pc, fl, stdout, diag, status, exitcode,
          traceback, hist, caller>>

\* The CPU object as the handlers see it.
CPU ==
    [ram |-> ram, reg |-> reg, pc |-> pc, fl |-> fl, out |-> stdout,
     diag |-> diag, exc |-> "none", exitcode |-> -1]

\* The fields a call leaves behind; a sys.exit or an uncaught exception ends
\* the process (an uncaught exception with status 1 and a traceback).
Commit(c) ==
    /\ ram' = c.ram
    /\ reg' = c.reg
    /\ pc' = c.pc
    /\ fl' = c.fl
    /\ stdout' = c.out
    /\ diag' = c.diag
    /\ status' = IF c.exc = "none" THEN "running" ELSE "exited"
    /\ exitcode' = IF c.exc = "none" THEN -1
                   ELSE IF c.exc = "SystemExit" THEN c.exitcode ELSE 1
    /\ traceback' = IF c.exc = "SystemExit" THEN "none" ELSE c.exc

\* The files with which the caller is also one that calls trace().
TracedFiles ==
    {FileOf(MultProgram),
     FileOf(<<LDI, 7, 0, PUSH, 0, HLT>>),
     [exists |-> TRUE, lines |-> <<CommentLine, <<>>, <<" ">>>>],
     [exists |-> TRUE, lines |-> <<Bin8(PRN), <<>>, Bin8(0), CommentLine, Bin8(HLT)>>],
     [exists |-> TRUE, lines |-> <<<<"-", "1">>,
                                   <<"1", "0", "0", "0", "0", "0", "0", "0", "1">>,
                                   <<"1", "0", "1", "0">>,
                                   Bin8(HLT)>>]}

Init ==
    /\ \/ argv = <<"cpu.py", "prog">> /\ file \in Files \cup TracedFiles
       \/ argv \in {<<"cpu.py">>, <<"cpu.py", "prog", "extra">>}
          /\ file = FileOf(MultProgram)
    /\ ram = NewCPU.ram
    /\ reg = NewCPU.reg
    /\ pc = NewCPU.pc
    /\ fl = NewCPU.fl
    /\ stdout = NewCPU.out
    /\ diag = NewCPU.diag
    /\ status = "constructed"
    /\ exitcode = -1
    /\ traceback = "none"
    /\ hist = <<>>
    /\ caller \in [plan : (IF argv = <<"cpu.py", "prog">> /\ file \in TracedFiles
                           THEN SUBSET {"constructed", "running"}
                           ELSE {{}}),
                   traced : {0}]

\* cpu.load()
Load ==
    /\ status = "constructed"
    /\ Commit(load(CPU, argv, file))
    /\ UNCHANGED <<argv, file, hist, caller>>

\* One iteration of run() in which the byte fetched at pc is ir.
Iteration ==
    /\ status = "running"
    /\ Len(hist) < MaxCycles
    /\ Commit(Cycle(CPU))
    /\ hist' = Append(hist, CPU)
    /\ UNCHANGED <<argv, file, caller>>

\* cpu.trace(), called before load() or between load() and run(); an
\* IndexError it raises is uncaught and ends the process.
Trace ==
    /\ status \in caller.plan
    /\ hist = <<>>
    /\ LET c == trace(CPU)
       IN  /\ stdout' = c.out
           /\ status' = IF c.exc = "none" THEN status ELSE "exited"
           /\ exitcode' = IF c.exc = "none" THEN exitcode ELSE 1
           /\ traceback' = c.exc
    /\ caller' = [plan |-> caller.plan \ {status}, traced |-> caller.traced + 1]
    /\ UNCHANGED <<argv, file, ram, reg, pc, fl, diag, hist>>

Fetched(op) == FetchOK(CPU) /\ ram_read(CPU, pc) = op

Opcodes == BranchKeys \cup AluKeys

FetchFault == ~FetchOK(CPU) /\ Iteration
Unsupported == FetchOK(CPU) /\ ram_read(CPU, pc) \notin Opcodes /\ BitOf(ram_read(CPU, pc), 5) = 0 /\ Iteration
UnsupportedAlu == FetchOK(CPU) /\ ram_read(CPU, pc) \notin Opcodes /\ BitOf(ram_read(CPU, pc), 5) = 1 /\ Iteration
DoHLT == Fetched(HLT) /\ Iteration
DoLDI == Fetched(LDI) /\ Iteration
DoPRN == Fetched(PRN) /\ Iteration
DoPUSH == Fetched(PUSH) /\ Iteration
DoPOP == Fetched(POP) /\ Iteration
DoCALL == Fetched(CALL) /\ Iteration
DoRET == Fetched(RET) /\ Iteration
DoST == Fetched(ST) /\ Iteration
DoJMP == Fetched(JMP) /\ Iteration
DoJEQ == Fetched(JEQ) /\ Iteration
DoJNE == Fetched(JNE) /\ Iteration
DoADD == Fetched(ADD) /\ Iteration
DoSUB == Fetched(SUB) /\ Iteration
DoMUL == Fetched(MUL) /\ Iteration
DoCMP == Fetched(CMP) /\ Iteration
DoADDI == Fetched(ADDI) /\ Iteration

Run ==
    \/ FetchFault \/ Unsupported \/ UnsupportedAlu
    \/ DoHLT \/ DoLDI \/ DoPRN \/ DoPUSH \/ DoPOP \/ DoCALL \/ DoRET \/ DoST
    \/ DoJMP \/ DoJEQ \/ DoJNE \/ DoADD \/ DoSUB \/ DoMUL \/ DoCMP \/ DoADDI

Next == Load \/ Trace \/ Run

Spec == Init /\ [][Next]_vars

(***************************************************************************)
(* Reading the history: iteration i of run() started in hist[i] and, if it *)
(* returned normally, ended in After(i).                                   *)
(***************************************************************************)
N == Len(hist)

After(i) == IF i < N THEN hist[i + 1] ELSE CPU

\* Iteration i returned normally (no exception, no exit).
Completed(i) == i < N \/ status = "running"

Ir(i) == ram_read(hist[i], hist[i].pc)

OpA(i) == ram_read(hist[i], hist[i].pc + 1)

OpB(i) == ram_read(hist[i], hist[i].pc + 2)

\* Iteration i fetched its three bytes and the first was op.
Executes(i, op) == FetchOK(hist[i]) /\ Ir(i) = op

Loaded(bytes) == argv = <<"cpu.py", "prog">> /\ file = FileOf(bytes)

\* What load() and run() have printed: stdout after the lines of the
\* caller's trace() calls, all of which precede run().
RunOutput == SubSeq(stdout, caller.traced + 1, Len(stdout))

(***************************************************************************)
(* C1.  Loaded with LDI R0,8 / LDI R1,9 / MUL R0,R1 / PRN R0 / HLT, the    *)
(* machine prints nothing but 72, raises no error, and ends halted with    *)
(* exit status 0 and output exactly <<72>>.                                *)
(***************************************************************************)
C1_MultHalted == status = "exited" /\ exitcode = 0 /\ RunOutput = <<72>>

\* The run is not over before the halt: nothing fails, nothing is printed
\* before the fourth instruction and 72 by it, and fewer than five
\* iterations of run() have been made, so that the next one is still to come.
C1_MultRunning ==
    /\ status \in {"constructed", "running"}
    /\ traceback = "none"
    /\ diag = NoDiag
    /\ exitcode = -1
    /\ RunOutput = (IF N < 4 THEN <<>> ELSE <<72>>)
    /\ N < 5
    /\ N < MaxCycles

\* C1: with the multiply program loaded, the run prints exactly 72 and ends
\* halted with exit status 0 after its five instructions, without an error.
C1_MultPrints72 ==
    Loaded(MultProgram) =>
        IF status = "exited"
        THEN C1_MultHalted /\ traceback = "none" /\ diag = NoDiag /\ N = 5
        ELSE C1_MultRunning

C1_Witness == Loaded(MultProgram) /\ C1_MultHalted /\ N = 5

(***************************************************************************)
(* C2.  In every iteration that returns normally on one of the defined     *)
(* opcodes other than HLT: with bit 4 of the opcode clear, the handler     *)
(* left PC alone and the loop added (opcode >> 6) + 1 to it; with bit 4    *)
(* set (CALL, RET, JMP, JEQ, JNE) the loop added nothing and PC is the     *)
(* value the handler assigned.                                             *)
(***************************************************************************)
C2_HandlerResult(i) == Dispatch(hist[i], Ir(i), OpA(i), OpB(i))

\* C2: the loop advances PC by (opcode >> 6) + 1 exactly when bit 4 is clear,
\* and otherwise PC is what the handler assigned.
C2_PcUpdate ==
    \A i \in 1..N :
        (FetchOK(hist[i]) /\ Ir(i) \in Opcodes \ {HLT} /\ Completed(i)) =>
            IF BitOf(Ir(i), 4) = 0
            THEN /\ Ir(i) \notin {CALL, RET, JMP, JEQ, JNE}
                 /\ C2_HandlerResult(i).pc = hist[i].pc
                 /\ After(i).pc = hist[i].pc + Shr(Ir(i), 6) + 1
            ELSE /\ Ir(i) \in {CALL, RET, JMP, JEQ, JNE}
                 /\ After(i).pc = C2_HandlerResult(i).pc

\* A history with a not-taken JEQ (the handler's own PC + 2), a taken jump
\* elsewhere and an instruction advanced by the loop.
C2_Witness ==
    /\ \E i \in 1..N : /\ Executes(i, JEQ) /\ Completed(i)
                       /\ hist[i].fl % 2 = 0
                       /\ After(i).pc = hist[i].pc + 2
    /\ \E i \in 1..N : /\ Executes(i, CMP) /\ Completed(i)
                       /\ After(i).pc = hist[i].pc + 3
    /\ \E i \in 1..N : /\ Executes(i, PRN) /\ Completed(i)
                       /\ After(i).pc = hist[i].pc + 2

(***************************************************************************)
(* C3.  LDI r,v with r in 0..7 and v in 0..255 returns normally, leaves v  *)
(* in register r, every other register, FL and memory as they were, and PC *)
(* advanced by 3.                                                          *)
(***************************************************************************)
\* C3: LDI r,v leaves v in register r and changes nothing else but PC (+3).
C3_LdiLoads ==
    \A i \in 1..N :
        (Executes(i, LDI) /\ OpA(i) \in 0..7 /\ OpB(i) \in 0..255) =>
            /\ Completed(i)
            /\ After(i).reg[OpA(i)] = OpB(i)
            /\ \A r \in (0..7) \ {OpA(i)} : After(i).reg[r] = hist[i].reg[r]
            /\ After(i).fl = hist[i].fl
            /\ After(i).ram = hist[i].ram
            /\ After(i).pc = hist[i].pc + 3

\* LDI into the stack pointer, with the flags set by an earlier CMP.
C3_Witness ==
    \E i \in 1..N :
        /\ Executes(i, LDI) /\ OpA(i) = SP /\ OpB(i) = 77
        /\ hist[i].fl # 0
        /\ Completed(i) /\ After(i).reg[SP] = 77

(***************************************************************************)
(* C4.  PUSH r immediately followed by POP r2, with SP in 1..255 before    *)
(* the PUSH: every memory cell except the one at (old SP - 1) is           *)
(* unchanged, reg[r2] is the value reg[r] had before the PUSH, and SP is   *)
(* back at its value before the PUSH.                                      *)
(***************************************************************************)
\* Iterations i and i+1 are PUSH r and POP r2 with r, r2 in R.
C4_PushPop(i, R) ==
    /\ Executes(i, PUSH) /\ OpA(i) \in R
    /\ hist[i].reg[SP] \in 1..255
    /\ Completed(i)
    /\ Executes(i + 1, POP) /\ OpA(i + 1) \in R
    /\ Completed(i + 1)

C4_RoundTrip(i) ==
    /\ \A a \in (0..255) \ {hist[i].reg[SP] - 1} :
           After(i + 1).ram[a] = hist[i].ram[a]
    /\ After(i + 1).reg[OpA(i + 1)] = hist[i].reg[OpA(i)]
    /\ After(i + 1).reg[SP] = hist[i].reg[SP]

\* C4 as claimed, for r and r2 in 0..7: PUSH r then POP r2 restores SP,
\* copies reg[r] to reg[r2] and touches memory at old SP - 1 only.
C4_PushPopAnyReg ==
    \A i \in 1..(N - 1) : C4_PushPop(i, 0..7) => C4_RoundTrip(i)

\* C4 for r and r2 in 0..6, the registers other than the stack pointer:
\* PUSH r then POP r2 restores SP, copies reg[r] to reg[r2] and touches
\* memory at old SP - 1 only.
C4_PushPopGeneral ==
    \A i \in 1..(N - 1) : C4_PushPop(i, 0..6) => C4_RoundTrip(i)

C4_Witness ==
    \E i \in 1..(N - 1) :
        /\ C4_PushPop(i, 0..6)
        /\ OpA(i) # OpA(i + 1)
        /\ hist[i].reg[OpA(i)] # hist[i].reg[OpA(i + 1)]
        /\ After(i + 1).ram # hist[i].ram
        /\ C4_RoundTrip(i)

(***************************************************************************)
(* C5.  CALL r at address p with SP in 1..255 stores p+2 at memory[SP-1],  *)
(* decrements SP and sets PC to reg[r]; a later RET reached with balanced  *)
(* PUSH/POP (and nested CALL/RET) in between and SP equal to SP right      *)
(* after the CALL sets PC to p+2 and SP to its value before the CALL.      *)
(***************************************************************************)
C5_CallAt(i) ==
    /\ Executes(i, CALL) /\ OpA(i) \in 0..7
    /\ hist[i].reg[SP] \in 1..255

\* The immediate effect of the CALL; PC is the value register r holds once
\* SP has been decremented.
C5_CallEffect(i) ==
    /\ Completed(i)
    /\ After(i).ram[hist[i].reg[SP] - 1] = hist[i].pc + 2
    /\ After(i).reg[SP] = hist[i].reg[SP] - 1
    /\ After(i).pc = After(i).reg[OpA(i)]
    /\ After(i).pc = (IF OpA(i) = SP THEN hist[i].reg[SP] - 1
                      ELSE hist[i].reg[OpA(i)])

\* Pushes (PUSH, CALL) minus pops (POP, RET) in iterations lo..hi.
C5_Depth(lo, hi) ==
    Cardinality({k \in lo..hi : Ir(k) \in {PUSH, CALL}})
    - Cardinality({k \in lo..hi : Ir(k) \in {POP, RET}})

\* The stack operations of iterations lo..hi are balanced: never more pops
\* than pushes, and as many in the end.
C5_Balanced(lo, hi) ==
    /\ \A k \in lo..hi : C5_Depth(lo, k) >= 0
    /\ C5_Depth(lo, hi) = 0

\* Iteration j is a RET that returns normally, after a CALL in iteration i
\* and balanced stack operations, with SP as the CALL left it.
C5_RetAfter(i, j) ==
    /\ C5_CallAt(i)
    /\ Executes(j, RET) /\ Completed(j)
    /\ C5_Balanced(i + 1, j - 1)
    /\ hist[j].reg[SP] = hist[i].reg[SP] - 1

C5_Resumes(i, j) ==
    /\ After(j).pc = hist[i].pc + 2
    /\ After(j).reg[SP] = hist[i].reg[SP]

\* The return-address cell holds p+2 from the CALL to the RET.
C5_SlotKept(i, j) ==
    \A k \in (i + 1)..j : hist[k].ram[hist[i].reg[SP] - 1] = hist[i].pc + 2

\* C5 as claimed: CALL pushes p+2 and jumps, and a RET after balanced stack
\* operations, with SP as the CALL left it, resumes at p+2 with SP restored.
C5_CallRetAnyBody ==
    \A i \in 1..N :
        /\ C5_CallAt(i) => C5_CallEffect(i)
        /\ \A j \in (i + 1)..N : C5_RetAfter(i, j) => C5_Resumes(i, j)

\* C5 for the runs in which no instruction between the CALL and the RET
\* overwrites the return-address cell: CALL pushes p+2 and jumps, and the
\* RET resumes at p+2 with SP restored.
C5_CallRet ==
    \A i \in 1..N :
        /\ C5_CallAt(i) => C5_CallEffect(i)
        /\ \A j \in (i + 1)..N :
               (C5_RetAfter(i, j) /\ C5_SlotKept(i, j)) => C5_Resumes(i, j)

\* A subroutine that pushes and pops before it returns.
C5_Witness ==
    \E i \in 1..N : \E j \in (i + 3)..N :
        /\ C5_RetAfter(i, j) /\ C5_SlotKept(i, j)
        /\ \E k \in (i + 1)..(j - 1) : Ir(k) = PUSH
        /\ C5_CallEffect(i) /\ C5_Resumes(i, j)

(***************************************************************************)
(* C6.  CMP a,b with a, b in 0..7 returns normally and leaves FL with      *)
(* exactly one of the bits Equal (1), Greater-Than (2), Less-Than (4):     *)
(* Equal iff reg[a] = reg[b], Less-Than iff reg[a] < reg[b], Greater-Than  *)
(* iff reg[a] > reg[b]; CMP a,a gives 1; registers and memory are          *)
(* unchanged.                                                              *)
(***************************************************************************)
\* C6: CMP sets FL to exactly the one bit that tells how reg[a] compares
\* with reg[b], and changes no register or memory cell.
C6_CmpFlags ==
    \A i \in 1..N :
        (Executes(i, CMP) /\ OpA(i) \in 0..7 /\ OpB(i) \in 0..7) =>
            LET valueA == hist[i].reg[OpA(i)]
                valueB == hist[i].reg[OpB(i)]
            IN  /\ Completed(i)
                /\ After(i).fl \in {1, 2, 4}
                /\ (After(i).fl = 1) <=> (valueA = valueB)
                /\ (After(i).fl = 4) <=> (valueA < valueB)
                /\ (After(i).fl = 2) <=> (valueA > valueB)
                /\ (OpA(i) = OpB(i)) => (After(i).fl = 1)
                /\ After(i).reg = hist[i].reg
                /\ After(i).ram = hist[i].ram

\* A CMP that found less-than, run with the stack pointer as an operand.
C6_Witness ==
    \E i \in 1..N :
        /\ Executes(i, CMP) /\ OpA(i) = 4 /\ OpB(i) = SP
        /\ hist[i].reg[4] = 200 /\ hist[i].reg[SP] = 255
        /\ Completed(i) /\ After(i).fl = 4

(***************************************************************************)
(* C7.  JEQ r (r in 0..7) sets PC to reg[r] if bit 0 of FL is set and to   *)
(* PC + 2 otherwise; JNE r sets PC to reg[r] if bit 0 is clear and to      *)
(* PC + 2 otherwise; neither changes registers, FL or memory.  So after a  *)
(* CMP a,b with no CMP in between, JEQ jumps iff reg[a] = reg[b] held at   *)
(* the CMP and JNE jumps iff it did not.                                   *)
(***************************************************************************)
C7_JumpAt(j) ==
    /\ FetchOK(hist[j]) /\ Ir(j) \in {JEQ, JNE}
    /\ OpA(j) \in 0..7

\* PC after iteration j when the jump is taken, and when it is not.
C7_PcIf(j, taken) ==
    After(j).pc = (IF taken THEN hist[j].reg[OpA(j)] ELSE hist[j].pc + 2)

\* C7: JEQ and JNE jump on bit 0 of FL, which is the equality found by the
\* most recent CMP, and change nothing but PC.
C7_CondJumps ==
    \A j \in 1..N :
        C7_JumpAt(j) =>
            /\ Completed(j)
            /\ C7_PcIf(j, (hist[j].fl % 2 = 1) <=> (Ir(j) = JEQ))
            /\ After(j).reg = hist[j].reg
            /\ After(j).fl = hist[j].fl
            /\ After(j).ram = hist[j].ram
            /\ \A i \in 1..(j - 1) :
                   (/\ Executes(i, CMP) /\ OpA(i) \in 0..7 /\ OpB(i) \in 0..7
                    /\ \A k \in (i + 1)..(j - 1) : Ir(k) # CMP) =>
                       C7_PcIf(j, (hist[i].reg[OpA(i)] = hist[i].reg[OpB(i)])
                                      <=> (Ir(j) = JEQ))

\* A JNE taken two instructions after a CMP of unequal registers, the
\* first of them greater.
C7_Witness ==
    \E j \in 1..N : \E i \in 1..(j - 2) :
        /\ C7_JumpAt(j) /\ Ir(j) = JNE /\ Completed(j)
        /\ Executes(i, CMP)
        /\ \A k \in (i + 1)..(j - 1) : Ir(k) # CMP
        /\ hist[i].reg[OpA(i)] > hist[i].reg[OpB(i)]
        /\ After(j).pc = hist[j].reg[OpA(j)]
        /\ After(j).pc # hist[j].pc + 2

(***************************************************************************)
(* C8.  Register values wrap within 8 bits: ADD, ADDI, SUB and MUL leave   *)
(* the exact result modulo 256 in the destination register, every register *)
(* is in 0..255 in every state, and PRN prints the wrapped value.          *)
(***************************************************************************)
\* The exact result of the arithmetic instruction of iteration i.
C8_Exact(i) ==
    LET x == hist[i].reg[OpA(i)]
    IN  CASE Ir(i) = ADD  -> x + hist[i].reg[OpB(i)]
          [] Ir(i) = SUB  -> x - hist[i].reg[OpB(i)]
          [] Ir(i) = MUL  -> x * hist[i].reg[OpB(i)]
          [] Ir(i) = ADDI -> x + OpB(i)

\* C8: arithmetic results are stored modulo 256, registers stay in 0..255
\* and PRN prints the wrapped value.
C8_RegistersWrap ==
    /\ \A r \in 0..7 : reg[r] \in 0..255
    /\ \A i \in 1..N :
           /\ (/\ FetchOK(hist[i]) /\ Ir(i) \in {ADD, ADDI, SUB, MUL}
               /\ OpA(i) \in 0..7 /\ (Ir(i) = ADDI \/ OpB(i) \in 0..7)) =>
                  /\ Completed(i)
                  /\ After(i).reg[OpA(i)] = C8_Exact(i) % 256
           /\ (Executes(i, PRN) /\ OpA(i) \in 0..7) =>
                  /\ Completed(i)
                  /\ After(i).out = Append(hist[i].out, hist[i].reg[OpA(i)] % 256)
                  /\ After(i).out[Len(After(i).out)] \in 0..255

(***************************************************************************)
(* C9.  Whenever the byte at PC is HLT the iteration ends the process with *)
(* exit status 0, no error, no output and no change to registers, FL or    *)
(* memory; nothing runs after it; and exit status 0 arises in no other     *)
(* way.                                                                    *)
(***************************************************************************)
\* Iteration i started with PC in P and the HLT opcode at PC.
C9_HltAt(i, P) == hist[i].pc \in P /\ hist[i].ram[hist[i].pc] = HLT

\* Iteration i was the last one and ended the process with status 0,
\* leaving the machine as it found it.
C9_Halts(i) ==
    /\ i = N
    /\ status = "exited" /\ exitcode = 0
    /\ traceback = "none" /\ diag = NoDiag
    /\ reg = hist[i].reg /\ fl = hist[i].fl /\ ram = hist[i].ram
    /\ pc = hist[i].pc
    /\ stdout = hist[i].out

\* Exit status 0 only by an HLT; after any exit nothing has run.
C9_OnlyHlt ==
    /\ (status = "exited" /\ exitcode = 0) => (N >= 1 /\ Executes(N, HLT))
    /\ \A i \in 1..(N - 1) : ~Executes(i, HLT)

\* C9 as claimed, for every PC in 0..255: an HLT at PC halts with status 0
\* and no change, and only an HLT does.
C9_HltAnywhere ==
    /\ \A i \in 1..N : C9_HltAt(i, 0..255) => C9_Halts(i)
    /\ C9_OnlyHlt

\* C9 for PC in 0..253, where the two bytes after the opcode exist: an HLT
\* at PC halts with status 0 and no change, and only an HLT does.
C9_HltHalts ==
    /\ \A i \in 1..N : C9_HltAt(i, 0..253) => C9_Halts(i)
    /\ C9_OnlyHlt

\* An HLT at the last address it can be fetched from.
C9_Witness == N >= 1 /\ C9_HltAt(N, {253}) /\ C9_Halts(N)

(***************************************************************************)
(* C10.  Fetching a byte with no registered handler (bit 5 clear and not   *)
(* in the general table, or bit 5 set and not in the ALU table) prints an  *)
(* "unsupported operation" diagnostic on standard output and ends the      *)
(* process with status 1, changing no register, flag, PC or memory cell.   *)
(***************************************************************************)
C10_NoHandler(i) ==
    /\ FetchOK(hist[i])
    /\ \/ BitOf(Ir(i), 5) = 0 /\ Ir(i) \notin BranchKeys
       \/ BitOf(Ir(i), 5) = 1 /\ Ir(i) \notin AluKeys

\* C10: a byte with no handler ends the process with status 1 and an
\* unsupported-operation diagnostic on standard output, changing nothing.
C10_UnsupportedDiagnosed ==
    \A i \in 1..N :
        C10_NoHandler(i) =>
            /\ i = N
            /\ status = "exited" /\ exitcode = 1
            /\ diag.msg \in {"Unsupported operation", "Unsupported ALU operation"}
            /\ reg = hist[i].reg /\ fl = hist[i].fl /\ ram = hist[i].ram
            /\ pc = hist[i].pc

(***************************************************************************)
(* C11.  Inside a handler, a register-index operand outside 0..7 or a      *)
(* memory address outside 0..255 (the address in reg[regA] for ST, the     *)
(* stack address of PUSH, POP, CALL and RET) is fatal: the iteration does  *)
(* not return normally and the process ends in an error state.             *)
(***************************************************************************)
\* The operand bytes the handler of iteration i uses as register indices.
C11_RegOperands(i) ==
    CASE Ir(i) \in {LDI, PRN, PUSH, POP, CALL, JMP, ADDI} -> {OpA(i)}
      [] Ir(i) \in {ST, ADD, SUB, MUL, CMP} -> {OpA(i), OpB(i)}
      [] Ir(i) = JEQ -> IF hist[i].fl % 2 = 1 THEN {OpA(i)} ELSE {}
      [] Ir(i) = JNE -> IF hist[i].fl % 2 = 0 THEN {OpA(i)} ELSE {}
      [] OTHER -> {}

\* The memory addresses the handler of iteration i uses.
C11_Addresses(i) ==
    CASE Ir(i) = ST ->
             IF OpA(i) \in 0..7 /\ OpB(i) \in 0..7
             THEN {hist[i].reg[OpA(i)]} ELSE {}
      [] Ir(i) \in {PUSH, CALL} -> {hist[i].reg[SP] - 1}
      [] Ir(i) \in {POP, RET} -> {hist[i].reg[SP]}
      [] OTHER -> {}

C11_OutOfRange(i) ==
    /\ FetchOK(hist[i]) /\ Ir(i) \in Opcodes
    /\ \/ \E r \in C11_RegOperands(i) : r \notin 0..7
       \/ \E a \in C11_Addresses(i) : a \notin 0..255

\* C11: a handler given a register index outside 0..7 or a memory address
\* outside 0..255 never returns normally: the process ends there with an
\* error status.
C11_OutOfRangeFatal ==
    \A i \in 1..N :
        C11_OutOfRange(i) =>
            /\ i = N
            /\ status = "exited"
            /\ exitcode # 0

(***************************************************************************)
(* Reading a program text as the file format describes it: a line is       *)
(* blank, a comment (its first non-space character is '#') or an           *)
(* instruction line, whose first word is the literal.                      *)
(***************************************************************************)
\* The line without its leading whitespace.
C12_Stripped(line) ==
    LET j == CHOOSE k \in 1..(Len(line) + 1) :
                 /\ k = Len(line) + 1 \/ ~IsSpace(line[k])
                 /\ \A m \in 1..(k - 1) : IsSpace(line[m])
    IN  SubSeq(line, j, Len(line))

C12_IsInstructionLine(line) ==
    C12_Stripped(line) # <<>> /\ Head(C12_Stripped(line)) # "#"

\* The first word of an instruction line.
C12_Word(line) ==
    LET t == C12_Stripped(line)
        e == CHOOSE k \in 1..(Len(t) + 1) :
                 /\ k = Len(t) + 1 \/ IsSpace(t[k])
                 /\ \A m \in 1..(k - 1) : ~IsSpace(t[m])
    IN  SubSeq(t, 1, e - 1)

\* Exactly 8 characters, each '0' or '1'.
C12_IsBin8(w) == Len(w) = 8 /\ \A i \in 1..8 : w[i] \in {"0", "1"}

\* The instruction lines of the file (by line number), and those whose
\* literal is not an 8-bit binary literal.
C12_InstructionLines ==
    {k \in 1..Len(file.lines) : C12_IsInstructionLine(file.lines[k])}

C12_InvalidLines ==
    {k \in C12_InstructionLines : ~C12_IsBin8(C12_Word(file.lines[k]))}

\* load() has run on a file that could be opened.
C12_FileRead == Len(argv) = 2 /\ file.exists /\ status # "constructed"

(***************************************************************************)
(* C12.  If some instruction line is not an 8-bit binary literal, load()   *)
(* ends with exit status 1 and the invalid-instruction diagnostic naming   *)
(* that text, and nothing is executed; so every value the loader writes    *)
(* to memory is in 0..255.                                                 *)
(***************************************************************************)
\* C12: a line that is not an 8-character binary literal makes load() exit
\* with status 1 and "Invalid Instruction" naming it, before any
\* instruction runs, and the loader writes only values in 0..255.
C12_InvalidRejected ==
    C12_FileRead =>
        /\ C12_InvalidLines # {} =>
               LET k == CHOOSE x \in C12_InvalidLines :
                            \A y \in C12_InvalidLines : x <= y
               IN  /\ status = "exited" /\ exitcode = 1
                   /\ diag = [msg |-> "Invalid Instruction: ",
                              arg |-> C12_Word(file.lines[k])]
                   /\ N = 0
        /\ N = 0 => \A a \in 0..(RamSize - 1) : ram[a] \in 0..255

(***************************************************************************)
(* C13.  A file with no instruction line (nothing, or only blank lines and *)
(* comments) makes load() exit with status 1 and the empty-program         *)
(* diagnostic; memory is still all zeros and run() executes nothing.       *)
(***************************************************************************)
\* C13: loading a file without an instruction line ends the process with
\* status 1 and "Provided program was empty.", memory all zeros and no
\* instruction executed.
C13_EmptyRejected ==
    (C12_FileRead /\ C12_InstructionLines = {}) =>
        /\ status = "exited" /\ exitcode = 1
        /\ diag = [msg |-> "Provided program was empty.", arg |-> <<>>]
        /\ traceback = "none"
        /\ \A a \in 0..(RamSize - 1) : ram[a] = 0
        /\ N = 0
        /\ RunOutput = <<>>

\* A file of a comment and two blank lines, rejected.
C13_Witness ==
    /\ C12_FileRead
    /\ Len(file.lines) = 3 /\ C12_InstructionLines = {}
    /\ status = "exited" /\ exitcode = 1
    /\ diag.msg = "Provided program was empty."

(***************************************************************************)
(* C14.  A file of n valid instruction lines (1 <= n <= 256) among blank   *)
(* lines and comments is loaded as: memory[k] is the byte of the (k+1)-th  *)
(* instruction line for k < n, memory[k] = 0 for k >= n; registers, PC     *)
(* and FL are as constructed.                                              *)
(***************************************************************************)
\* The byte an 8-character binary literal denotes.
C14_Byte(w) ==
    LET b(i) == IF w[i] = "1" THEN 1 ELSE 0
    IN  128 * b(1) + 64 * b(2) + 32 * b(3) + 16 * b(4)
        + 8 * b(5) + 4 * b(6) + 2 * b(7) + b(8)

\* The line number of the (k+1)-th instruction line.
C14_Nth(k) ==
    CHOOSE x \in C12_InstructionLines :
        Cardinality({y \in C12_InstructionLines : y < x}) = k

\* C14: after load() of n valid instruction lines, memory holds their bytes
\* at 0..n-1 in order and 0 above, skipped lines take no address, and
\* registers, PC and FL are untouched.
C14_LoadLayout ==
    (/\ C12_FileRead /\ N = 0
     /\ C12_InvalidLines = {}
     /\ Cardinality(C12_InstructionLines) \in 1..RamSize) =>
        LET n == Cardinality(C12_InstructionLines)
        IN  /\ status = "running"
            /\ \A k \in 0..(RamSize - 1) :
                   ram[k] = (IF k < n
                             THEN C14_Byte(C12_Word(file.lines[C14_Nth(k)]))
                             ELSE 0)
            /\ reg = NewCPU.reg
            /\ pc = 0
            /\ fl = 0
            /\ RunOutput = <<>>

\* Three instruction lines with a blank line and a comment between them.
C14_Witness ==
    /\ C12_FileRead /\ N = 0 /\ status = "running"
    /\ Len(file.lines) = 5 /\ Cardinality(C12_InstructionLines) = 3
    /\ C12_InvalidLines = {}
    /\ ram[0] = PRN /\ ram[1] = 0 /\ ram[2] = HLT /\ ram[3] = 0

(***************************************************************************)
(* C15.  The stack operations keep SP in 0..255: PUSH and CALL with SP = 0 *)
(* are fatal and write no memory cell, POP and RET with SP above 255 are   *)
(* fatal and change no register, and none of the four returns normally     *)
(* with SP below 0 or above 255.                                           *)
(***************************************************************************)
C15_StackOp(i, ops) == FetchOK(hist[i]) /\ Ir(i) \in ops

\* Iteration i ended the process with an error status.
C15_Fatal(i) == i = N /\ status = "exited" /\ exitcode # 0

\* C15: PUSH/CALL at SP = 0 and POP/RET at SP > 255 are fatal and leave
\* memory (registers) untouched, and no PUSH, POP, CALL or RET returns
\* normally with SP outside 0..255.
C15_SpInRange ==
    \A i \in 1..N :
        /\ (C15_StackOp(i, {PUSH, CALL}) /\ hist[i].reg[SP] = 0) =>
               C15_Fatal(i) /\ ram = hist[i].ram
        /\ (C15_StackOp(i, {POP, RET}) /\ hist[i].reg[SP] > 255) =>
               C15_Fatal(i) /\ reg = hist[i].reg
        /\ (C15_StackOp(i, {PUSH, POP, CALL, RET}) /\ Completed(i)) =>
               After(i).reg[SP] \in 0..255

(***************************************************************************)
(* C16.  An iteration of run() that starts with PC, PC+1 or PC+2 outside   *)
(* 0..255 (PC negative or above 253) is a fatal out-of-range access: the   *)
(* process ends there with an error status, no handler has run and         *)
(* nothing is fetched from a wrapped address.                              *)
(***************************************************************************)
\* C16: with PC outside 0..253 the iteration ends the process with an error
\* status and leaves registers, flags, PC, memory and output as they were.
C16_FetchInRange ==
    \A i \in 1..N :
        hist[i].pc \notin 0..(RamSize - 3) =>
            /\ i = N
            /\ status = "exited" /\ exitcode # 0
            /\ ram = hist[i].ram /\ reg = hist[i].reg
            /\ fl = hist[i].fl /\ pc = hist[i].pc
            /\ stdout = hist[i].out

(***************************************************************************)
(* C17.  Memory is 256 cells of unsigned 8-bit values: in every state      *)
(* reached from a loaded program of valid bytes, whatever instructions     *)
(* have run, there are 256 cells and each holds a value in 0..255.         *)
(***************************************************************************)
\* C17: after loading a program of 8-bit literals, memory always has the
\* cells 0..255 and every cell holds a value in 0..255.
C17_MemoryBytes ==
    (C12_FileRead /\ C12_InvalidLines = {}) =>
        /\ DOMAIN ram = 0..(RamSize - 1)
        /\ \A a \in 0..(RamSize - 1) : ram[a] \in 0..255

(***************************************************************************)
(* C18.  FL is written by CMP only: every other iteration of run() leaves  *)
(* FL as it was, so FL is 0 until the first CMP and one of 1, 2, 4 after   *)
(* it, and a JEQ or JNE reads the value the most recent CMP produced.      *)
(***************************************************************************)
\* Iteration k is the most recent CMP before iteration i.
C18_LastCmp(k, i) ==
    /\ k < i /\ Executes(k, CMP)
    /\ \A m \in (k + 1)..(i - 1) : ~Executes(m, CMP)

\* C18: no instruction but CMP changes FL; FL is 0 before the first CMP and
\* exactly one of the bits 0, 1, 2 afterwards; JEQ and JNE read the FL of
\* the most recent CMP.
C18_FlagsOnlyByCmp ==
    /\ fl \in {0, 1, 2, 4}
    /\ \A i \in 1..N :
           /\ ~Executes(i, CMP) => After(i).fl = hist[i].fl
           /\ (hist[i].fl = 0) <=> (\A k \in 1..(i - 1) : ~Executes(k, CMP))
           /\ hist[i].fl # 0 => hist[i].fl \in {1, 2, 4}
           /\ (FetchOK(hist[i]) /\ Ir(i) \in {JEQ, JNE}) =>
                  \A k \in 1..(i - 1) :
                      C18_LastCmp(k, i) => hist[i].fl = After(k).fl

\* A run in which CMP found less-than, then a CALL, a RET and a stack
\* round trip ran, and a JNE read the flags as the CMP left them.
C18_Witness ==
    \E k \in 1..N : \E i \in (k + 1)..N :
        /\ C18_LastCmp(k, i) /\ After(k).fl = 4
        /\ Executes(i, JNE) /\ hist[i].fl = 4 /\ Completed(i)
        /\ \E m \in (k + 1)..(i - 1) : Executes(m, CALL)
        /\ \E m \in (k + 1)..(i - 1) : Executes(m, RET)
        /\ \E m \in (k + 1)..(i - 1) : Executes(m, ADDI)

(***************************************************************************)
(* C19.  ST a,b with a, b in 0..7 and reg[a] in 0..255 returns normally    *)
(* with memory[reg[a]] = reg[b], every other cell, every register          *)
(* (SP included) and FL unchanged, and PC advanced by 3; also when the     *)
(* cell is inside the loaded program or the stack area.                    *)
(***************************************************************************)
C19_StoreAt(i) ==
    /\ Executes(i, ST) /\ OpA(i) \in 0..7 /\ OpB(i) \in 0..7
    /\ hist[i].reg[OpA(i)] \in 0..255

\* C19: ST a,b writes reg[b] to the cell at address reg[a] and changes
\* nothing else but PC, which advances by 3.
C19_StoreFrame ==
    \A i \in 1..N :
        C19_StoreAt(i) =>
            LET addr == hist[i].reg[OpA(i)]
            IN  /\ Completed(i)
                /\ After(i).ram[addr] = hist[i].reg[OpB(i)]
                /\ \A a \in (0..(RamSize - 1)) \ {addr} :
                       After(i).ram[a] = hist[i].ram[a]
                /\ After(i).reg = hist[i].reg
                /\ After(i).fl = hist[i].fl
                /\ After(i).pc = hist[i].pc + 3
                /\ After(i).out = hist[i].out

\* ST through the stack pointer onto the instruction that follows it in
\* the loaded program.
C19_Witness ==
    \E i \in 1..N :
        /\ C19_StoreAt(i) /\ OpA(i) = SP /\ OpB(i) # SP
        /\ hist[i].reg[SP] = hist[i].pc + 3
        /\ Completed(i)
        /\ After(i).ram[hist[i].pc + 3] = 77
        /\ hist[i].ram[hist[i].pc + 3] = HLT

(***************************************************************************)
(* C20.  The sixteen opcode values agree with the bit fields run()         *)
(* decodes: bit 5 is set exactly for the opcodes of the ALU table and      *)
(* clear exactly for those of the general table, bit 4 is set exactly for  *)
(* the opcodes whose handler assigns PC (CALL, RET, JMP, JEQ, JNE), bits   *)
(* 6-7 are the number of operand bytes the handler uses, and the values    *)
(* are distinct, so run() routes every opcode to its own handler.          *)
(***************************************************************************)
\* CPU states on which the handlers are tried: distinct register values,
\* PC away from every value a handler can assign, Equal flag clear and set.
C20_Probes ==
    {[NewCPU EXCEPT !.reg = [r \in 0..7 |-> IF r = SP THEN 244 ELSE 20 + r],
                    !.pc = 3, !.fl = f] : f \in {0, 1}}

C20_InAluTable(op) ==
    \E c \in C20_Probes : alu_branchtable(c, op, 0, 1).exc # "KeyError"

C20_InGeneralTable(op) ==
    \E c \in C20_Probes : branchtable(c, op, 0, 1).exc # "KeyError"

\* The handler registered for op, by name.
C20_Handler(op, c, a, b) ==
    CASE op = HLT  -> handle_hlt(c, a, b)
      [] op = LDI  -> handle_ldi(c, a, b)
      [] op = PRN  -> handle_prn(c, a, b)
      [] op = PUSH -> handle_push(c, a, b)
      [] op = POP  -> handle_pop(c, a, b)
      [] op = CALL -> handle_call(c, a, b)
      [] op = RET  -> handle_ret(c, a, b)
      [] op = ST   -> handle_st(c, a, b)
      [] op = JMP  -> handle_jmp(c, a, b)
      [] op = JEQ  -> handle_jeq(c, a, b)
      [] op = JNE  -> handle_jne(c, a, b)
      [] op = ADD  -> handle_add(c, a, b)
      [] op = SUB  -> handle_sub(c, a, b)
      [] op = MUL  -> handle_mul(c, a, b)
      [] op = CMP  -> handle_cmp(c, a, b)
      [] op = ADDI -> handle_addi(c, a, b)

\* The handler of op assigns PC for some state and operands.
C20_AssignsPC(op) ==
    \E c \in C20_Probes : \E a \in 0..7 :
        LET d == C20_Handler(op, c, a, 0)
        IN  d.exc = "none" /\ d.pc # c.pc

\* The handler of op uses its first (second) operand: its result depends
\* on it for some state.
C20_UsesA(op) ==
    \E c \in C20_Probes : \E a1, a2, b \in 0..7 :
        C20_Handler(op, c, a1, b) # C20_Handler(op, c, a2, b)

C20_UsesB(op) ==
    \E c \in C20_Probes : \E a, b1, b2 \in 0..7 :
        C20_Handler(op, c, a, b1) # C20_Handler(op, c, a, b2)

C20_OperandsUsed(op) ==
    (IF C20_UsesA(op) THEN 1 ELSE 0) + (IF C20_UsesB(op) THEN 1 ELSE 0)

\* The bit fields of the sixteen values against the tables and handlers.
C20_Fields ==
    /\ Cardinality(Opcodes) = 16
    /\ \A op \in Opcodes :
           /\ (BitOf(op, 5) = 1) <=> C20_InAluTable(op)
           /\ (BitOf(op, 5) = 0) <=> C20_InGeneralTable(op)
           /\ C20_InAluTable(op) <=> (op \in {ADD, ADDI, SUB, MUL, CMP})
           /\ (BitOf(op, 4) = 1) <=> C20_AssignsPC(op)
           /\ C20_AssignsPC(op) <=> (op \in {CALL, RET, JMP, JEQ, JNE})
           /\ Shr(op, 6) = C20_OperandsUsed(op)
           /\ C20_OperandsUsed(op) =
                  (IF op \in {HLT, RET} THEN 0
                   ELSE IF op \in {PRN, PUSH, POP, CALL, JMP, JEQ, JNE} THEN 1
                   ELSE 2)
           /\ \A c \in C20_Probes : \A a, b \in 0..7 :
                  Dispatch(c, op, a, b) = C20_Handler(op, c, a, b)

\* C20: the opcode values carry the bit fields the loop decodes (ALU bit,
\* sets-PC bit, operand count), are pairwise distinct, and every iteration
\* of run() on a defined opcode does what that opcode's own handler does.
C20_Encoding ==
    /\ C20_Fields
    /\ \A i \in 1..N :
           (FetchOK(hist[i]) /\ Ir(i) \in Opcodes) =>
               /\ Dispatch(hist[i], Ir(i), OpA(i), OpB(i))
                      = C20_Handler(Ir(i), hist[i], OpA(i), OpB(i))
               /\ (i = N /\ status = "exited") =>
                      (traceback # "KeyError"
                       /\ diag.msg # "Unsupported ALU operation")

\* A run through a general instruction, an ALU instruction and
\* instructions that assign PC, ended by HLT.
C20_Witness ==
    /\ status = "exited" /\ exitcode = 0
    /\ \E i \in 1..N : Executes(i, ADDI)
    /\ \E i \in 1..N : Executes(i, CALL)
    /\ \E i \in 1..N : Executes(i, RET)
    /\ \E i \in 1..N : Executes(i, JNE)
    /\ Executes(N, HLT)

=============================================================================
